---- MODULE Spec2Model ----
(***************************************************************************)
(* A model of lsst.ctrl.mpexec.SingleQuantumExecutor: the execution of one *)
(* quantum against a dataset store (singleQuantumExecutor.py).             *)
(*                                                                         *)
(* The store is the set of dataset references it reports as stored.  An    *)
(* executor is the record its constructor builds; one call of execute()    *)
(* walks the steps of _execute() in the order of the code, one action per  *)
(* method.  What a call did (the steps it took, what it pruned and put,    *)
(* how it ended) is recorded in the executor's frame, which the next call  *)
(* of execute() resets.                                                    *)
(***************************************************************************)
EXTENDS Integers, Sequences, FiniteSets, TLC

VARIABLES
    cfg,      \* cfg[e]: the attributes __init__ sets on executor e
    quantum,  \* the quantum submitted to execute() (the graph's, never mutated)
    store,    \* the dataset references the butler reports as stored
    ex        \* ex[e]: the frame of executor e's current or last execute() call

vars == <<cfg, quantum, store, ex>>

-----------------------------------------------------------------------------
(* Bounds of the model. *)

\* Most references one data output dataset type of a quantum holds.
MaxOutputRefs == 2
\* Most references the metadata dataset type of a quantum holds.
MaxMetadataRefs == 2
\* Most input references of a quantum, over all its input dataset types.
MaxInputRefs == 2

-----------------------------------------------------------------------------
(* Values. *)

None == "None"

Executors == {"e1", "e2"}

\* task_node.metadata_output.dataset_type_name
METADATA == "task_metadata"
\* The dataset type of the task's data outputs (a connection of the task).
OUT == "out"
\* The input dataset types of the task's connections.
InputTypes == {"inA", "inB"}

\* task_node.label
Label == "task"

\* The instrument of a reference's data ID (datasetRef.dataId.get("instrument")),
\* None when the data ID has no instrument dimension.
Instruments == {None, "HSC", "LATISS"}

\* A dataset reference: its dataset type, its place in the graph's list and
\* the instrument of its data ID.
Ref(t, i, inst) == <<t, i, inst>>
RefList(t, n, inst) == [i \in 1..n |-> Ref(t, i, inst)]
\* No reference.
NoRef == Ref(None, 0, None)

Range(s) == {s[i] : i \in DOMAIN s}

\* chain.from_iterable(mapping.values())
AllRefs(mapping) == UNION {Range(mapping[k]) : k \in DOMAIN mapping}

\* The sub-sequences of s (s with any of its elements removed, order kept).
RECURSIVE SubSeqs(_)
SubSeqs(s) ==
    IF s = <<>> THEN {<<>>}
    ELSE LET rest == SubSeqs(Tail(s))
         IN  rest \cup {<<Head(s)>> \o r : r \in rest}

-----------------------------------------------------------------------------
(* Quanta. *)

\* The output mappings of a quantum: the metadata dataset type may be absent
\* (graph generation and execution disagree), or hold any number of
\* references; the data output type is absent or holds some references.
OutputMappings(inst) ==
    { [t \in types |-> RefList(t, n[t], inst)] :
        types \in SUBSET {METADATA, OUT},
        n \in {f \in [{METADATA, OUT} -> 0..(MaxMetadataRefs + MaxOutputRefs)] :
                 /\ f[METADATA] <= MaxMetadataRefs
                 /\ f[OUT] \in 1..MaxOutputRefs} }

\* The input mappings of a quantum with at most total references.
InputMappings(inst, total) ==
    { [t \in InputTypes |-> RefList(t, n[t], inst)] :
        n \in {f \in [InputTypes -> 0..total] : f["inA"] + f["inB"] <= total} }

\* quantum.initInputs.values(): the one init-input reference of the task.
InitInputs(inst) == <<Ref("initIn", 1, inst)>>

\* lsst.daf.butler.Quantum(taskName, taskClass, dataId, initInputs, inputs, outputs)
Quantum(taskName, taskClass, dataId, initInputs, inputs, outputs) ==
    [taskName |-> taskName, taskClass |-> taskClass, dataId |-> dataId,
     initInputs |-> initInputs, inputs |-> inputs, outputs |-> outputs]

\* No quantum (a frame's fields before they are set).
NoQuantum == Quantum(None, None, None, <<>>, <<>>, <<>>)

-----------------------------------------------------------------------------
(* SingleQuantumExecutor.__init__ *)

\* skipExistingIn: None, or collections that hold butler.run, or collections
\* that do not.
SkipExistingInValues == {None, "with_run", "without_run"}

\* The attributes __init__ sets.  butler is "full" (a Butler) or None (a
\* limited butler is made per quantum by limited_butler_factory).
Construct(butler, skipExistingIn, clobberOutputs, exitOnKnownError, skipExisting) ==
    [butler |-> butler,
     clobberOutputs |-> clobberOutputs,
     exitOnKnownError |-> exitOnKnownError,
     skipExisting |->
        IF butler # None /\ skipExistingIn # None
        THEN skipExistingIn = "with_run"
        ELSE skipExisting]

-----------------------------------------------------------------------------
(* SingleQuantumExecutor.checkExistingOutputs *)

\* What the method does for executor attributes c, quantum q and store st:
\* ret is "True", "False" or "raise" (with the exception in exc), prune
\* the references handed to limited_butler.pruneDatasets.
CheckResult(ret, exc, msg, prune) ==
    [ret |-> ret, exc |-> exc, msg |-> msg, prune |-> prune]

\* The mutants of checkOutputsInTheWay: the method with one of its four
\* decisions on outputs in the way replaced.  d names, for complete and for
\* partial outputs, with and without clobberOutputs, what is done: "existing",
\* "every" or "nothing" is pruned and False returned, or "raise".
Decision(how, msg, existingRefs, refs) ==
    CASE how = "existing" -> CheckResult("False", None, None, existingRefs)
      [] how = "every"    -> CheckResult("False", None, None, refs)
      [] how = "nothing"  -> CheckResult("False", None, None, {})
      [] OTHER            -> CheckResult("raise", "RuntimeError", msg, {})

OutputsInTheWayVariant(c, q, st, d) ==
    LET refs         == AllRefs(q.outputs)
        existingRefs == {r \in refs : r \in st}
        missingRefs  == {r \in refs : r \notin st}
    IN  IF existingRefs # {}
        THEN IF missingRefs = {}
             THEN IF c.skipExisting
                  THEN CheckResult("True", None, None, {})
                  ELSE IF c.clobberOutputs
                  THEN Decision(d.completeClobber, "complete", existingRefs, refs)
                  ELSE Decision(d.completeNoClobber, "complete", existingRefs, refs)
             ELSE IF c.clobberOutputs
                  THEN Decision(d.partialClobber, "partial", existingRefs, refs)
                  ELSE Decision(d.partialNoClobber, "partial", existingRefs, refs)
        ELSE CheckResult("False", None, None, {})

\* The decisions of the code.
CodeDecisions ==
    [completeClobber |-> "existing", completeNoClobber |-> "raise",
     partialClobber |-> "existing", partialNoClobber |-> "raise"]

\* Mutant: complete outputs with neither flag set do not raise.
checkOutputsInTheWay_NoCompleteError(c, q, st) ==
    OutputsInTheWayVariant(c, q, st, [CodeDecisions EXCEPT !.completeNoClobber = "nothing"])

\* Mutant: complete outputs are not removed under clobberOutputs.
checkOutputsInTheWay_NoCompletePrune(c, q, st) ==
    OutputsInTheWayVariant(c, q, st, [CodeDecisions EXCEPT !.completeClobber = "nothing"])

\* Mutant: for partial outputs pruneDatasets is given every output reference
\* of the quantum, stored or not.
checkOutputsInTheWay_PrunesEvery(c, q, st) ==
    OutputsInTheWayVariant(c, q, st, [CodeDecisions EXCEPT !.partialClobber = "every"])

\* Mutant: partial outputs without clobberOutputs do not raise.
checkOutputsInTheWay_NoPartialError(c, q, st) ==
    OutputsInTheWayVariant(c, q, st, [CodeDecisions EXCEPT !.partialNoClobber = "nothing"])

\* Mutant: partial outputs under clobberOutputs are left in the store.
checkOutputsInTheWay_PartialKept(c, q, st) ==
    OutputsInTheWayVariant(c, q, st, [CodeDecisions EXCEPT !.partialClobber = "nothing"])

\* Mutant: partial outputs raise also under clobberOutputs.
checkOutputsInTheWay_PartialRaises(c, q, st) ==
    OutputsInTheWayVariant(c, q, st, [CodeDecisions EXCEPT !.partialClobber = "raise"])

\* The part of the method after the metadata check (lines 361-403).
checkOutputsInTheWay(c, q, st) ==
    LET refs         == AllRefs(q.outputs)
        existingRefs == {r \in refs : r \in st}
        missingRefs  == {r \in refs : r \notin st}
    IN  IF existingRefs # {}
        THEN IF missingRefs = {}
             THEN IF c.skipExisting
                  THEN CheckResult("True", None, None, {})
                  ELSE IF c.clobberOutputs
                  THEN CheckResult("False", None, None, existingRefs)
                  ELSE CheckResult("raise", "RuntimeError", "complete", {})
             ELSE IF c.clobberOutputs
                  THEN CheckResult("False", None, None, existingRefs)
                  ELSE CheckResult("raise", "RuntimeError", "partial", {})
        ELSE CheckResult("False", None, None, {})

\* Mutant: the metadata check of lines 348-359 left out.
checkExistingOutputs_NoMetadataCheck(c, q, st) ==
    checkOutputsInTheWay(c, q, st)

\* Mutant: skipExisting never consulted.
checkExistingOutputs_IgnoresSkip(c, q, st) ==
    checkOutputsInTheWay([c EXCEPT !.skipExisting = FALSE], q, st)

\* [metadata_ref] = quantum.outputs[name] raises KeyError when the mapping has
\* no such dataset type and ValueError when the list does not hold exactly one
\* reference.
checkExistingOutputs(c, q, st) ==
    IF c.skipExisting
    THEN IF METADATA \notin DOMAIN q.outputs
         THEN CheckResult("raise", "KeyError", None, {})
         ELSE IF Len(q.outputs[METADATA]) # 1
         THEN CheckResult("raise", "ValueError", None, {})
         ELSE IF q.outputs[METADATA][1] \in st
         THEN CheckResult("True", None, None, {})
         ELSE checkOutputsInTheWay(c, q, st)
    ELSE checkOutputsInTheWay(c, q, st)

-----------------------------------------------------------------------------
(* SingleQuantumExecutor.updatedQuantumInputs *)

\* Mutant: the loop over a list stops at its first absent reference (break
\* for continue).
RECURSIVE UntilAbsent(_, _)
UntilAbsent(refs, st) ==
    IF refs = <<>> \/ Head(refs) \notin st THEN <<>>
    ELSE <<Head(refs)>> \o UntilAbsent(Tail(refs), st)

updatedInputs_Break(q, st) ==
    [key \in DOMAIN q.inputs |-> UntilAbsent(q.inputs[key], st)]

\* updatedInputs after the loop over quantum.inputs.items(): for each dataset
\* type the references that stored_many reports as stored, appended in the
\* order of the original list.
updatedInputs(q, st) ==
    [key \in DOMAIN q.inputs |->
        SelectSeq(q.inputs[key], LAMBDA ref : ref \in st)]

\* Mutant: a change is seen only when a list lost all its references.
anyChanges_Emptied(q, st) ==
    \E key \in DOMAIN q.inputs :
        /\ Len(q.inputs[key]) > 0
        /\ Len(updatedInputs(q, st)[key]) = 0

\* Mutant: anyChanges starts as True.
anyChanges_Always(q, st) == TRUE

\* anyChanges after the loop: some list became shorter.
anyChanges(q, st) ==
    \E key \in DOMAIN q.inputs :
        Len(updatedInputs(q, st)[key]) # Len(q.inputs[key])

\* What helper.adjust_in_place may do with the mappings it is given (the task's
\* adjustQuantum, through AdjustQuantumHelper): raise NoWorkFound, or leave
\* mappings in which references of the task's connections were removed and none
\* added.  The metadata output is no connection of the task and is kept.
AdjustResults(inputs, outputs) ==
    {[noWork |-> TRUE, inputs |-> inputs, outputs |-> outputs]} \cup
    { [noWork |-> FALSE, inputs |-> i, outputs |-> o] :
        i \in {f \in [DOMAIN inputs -> UNION {SubSeqs(inputs[k]) : k \in DOMAIN inputs}] :
                 \A k \in DOMAIN inputs : f[k] \in SubSeqs(inputs[k])},
        o \in {f \in [DOMAIN outputs -> UNION {SubSeqs(outputs[k]) : k \in DOMAIN outputs}] :
                 \A k \in DOMAIN outputs :
                    /\ f[k] \in SubSeqs(outputs[k])
                    /\ k = METADATA => f[k] = outputs[k]} }

\* Mutant: the new quantum is built without the data ID.
updatedQuantum_NoDataId(q, inputs, outputs) ==
    Quantum(q.taskName, q.taskClass, None, q.initInputs, inputs, outputs)

\* The Quantum the method returns: the identity fields and initInputs of the
\* quantum it was given, with the helper's inputs and outputs.
updatedQuantum(q, inputs, outputs) ==
    Quantum(q.taskName, q.taskClass, q.dataId, q.initInputs, inputs, outputs)

-----------------------------------------------------------------------------
(* SingleQuantumExecutor.runQuantum *)

\* How task.runQuantum may end.
TaskOutcomes ==
    {"ok", "NoWorkFound", "RepeatableQuantumError", "InvalidQuantumError", "Exception"}

\* Mutant: InvalidQuantumError is handled like RepeatableQuantumError.
runQuantum_InvalidAsRepeatable(c, out) ==
    CASE out \in {"ok", "NoWorkFound"} -> "return"
      [] out \in {"RepeatableQuantumError", "InvalidQuantumError"} ->
            IF c.exitOnKnownError THEN "exit" ELSE "raise"
      [] OTHER -> "raise"

\* Mutant: the test of exitOnKnownError is inverted.
runQuantum_ExitInverted(c, out) ==
    CASE out \in {"ok", "NoWorkFound"} -> "return"
      [] out = "RepeatableQuantumError" ->
            IF c.exitOnKnownError THEN "raise" ELSE "exit"
      [] out = "InvalidQuantumError" -> "exit"
      [] OTHER -> "raise"

\* Mutant: no handler for NoWorkFound.
runQuantum_NoWorkRaised(c, out) ==
    CASE out = "ok" -> "return"
      [] out = "RepeatableQuantumError" ->
            IF c.exitOnKnownError THEN "exit" ELSE "raise"
      [] out = "InvalidQuantumError" -> "exit"
      [] OTHER -> "raise"

\* Mutant: a last handler "except Exception" that exits the process.
runQuantum_ExitsOnAny(c, out) ==
    CASE out \in {"ok", "NoWorkFound"} -> "return"
      [] out = "RepeatableQuantumError" ->
            IF c.exitOnKnownError THEN "exit" ELSE "raise"
      [] OTHER -> "exit"

\* Mutant: RepeatableQuantumError without exitOnKnownError is logged and
\* swallowed.
runQuantum_RepeatableSwallowed(c, out) ==
    CASE out \in {"ok", "NoWorkFound"} -> "return"
      [] out = "RepeatableQuantumError" ->
            IF c.exitOnKnownError THEN "exit" ELSE "return"
      [] out = "InvalidQuantumError" -> "exit"
      [] OTHER -> "raise"

\* What runQuantum does when task.runQuantum ended with out: it returns
\* ("return": the task returned, or raised NoWorkFound, which is swallowed),
\* calls sys.exit(err.EXIT_CODE) ("exit": InvalidQuantumError always,
\* RepeatableQuantumError with exitOnKnownError), or lets the exception
\* through ("raise").
runQuantum(c, out) ==
    CASE out \in {"ok", "NoWorkFound"} -> "return"
      [] out = "RepeatableQuantumError" ->
            IF c.exitOnKnownError THEN "exit" ELSE "raise"
      [] out = "InvalidQuantumError" -> "exit"
      [] OTHER -> "raise"

-----------------------------------------------------------------------------
(* SingleQuantumExecutor.writeMetadata *)

\* [ref] = quantum.outputs[name] inside try/except LookupError: a missing
\* dataset type (KeyError, a LookupError) becomes InvalidQuantumError; a list
\* of another length than one raises ValueError, which is no LookupError.
\* ref is the reference the payload is put under, NoRef when the method raises.
writeMetadata(q) ==
    IF METADATA \notin DOMAIN q.outputs
    THEN [exc |-> "InvalidQuantumError", ref |-> NoRef]
    ELSE IF Len(q.outputs[METADATA]) # 1
    THEN [exc |-> "ValueError", ref |-> NoRef]
    ELSE [exc |-> None, ref |-> q.outputs[METADATA][1]]

-----------------------------------------------------------------------------
(* SingleQuantumExecutor.initGlobals *)

\* The references in the order of chain(inputs.values(), outputs.values()).
RECURSIVE Concat(_, _)
Concat(mapping, keys) ==
    IF keys = <<>> THEN <<>>
    ELSE (IF Head(keys) \in DOMAIN mapping THEN mapping[Head(keys)] ELSE <<>>)
         \o Concat(mapping, Tail(keys))

\* What the method did: exc is None or "AssertionError", registered the
\* instruments handed to Instrument.fromName, in order.
InitResult(exc, registered) == [exc |-> exc, registered |-> registered]

\* The loop over the references: the first instrument found is kept in
\* oneInstrument and registered, every later one is asserted to equal it.
RECURSIVE initGlobalsLoop(_, _, _)
initGlobalsLoop(refs, oneInstrument, registered) ==
    IF refs = <<>> THEN InitResult(None, registered)
    ELSE LET instrument == Head(refs)[3]
         IN  IF instrument # None
             THEN IF oneInstrument # None
                  THEN IF instrument = oneInstrument
                       THEN initGlobalsLoop(Tail(refs), oneInstrument, registered)
                       ELSE InitResult("AssertionError", registered)
                  ELSE initGlobalsLoop(Tail(refs), instrument,
                                       Append(registered, instrument))
             ELSE initGlobalsLoop(Tail(refs), oneInstrument, registered)

\* The references in the order of chain(quantum.inputs.values(),
\* quantum.outputs.values()).
ChainedRefs(q) ==
    Concat(q.inputs, <<"inA", "inB">>) \o Concat(q.outputs, <<METADATA, OUT>>)

\* Mutant: the loop without the assertion.
RECURSIVE NamedInstruments(_)
NamedInstruments(refs) ==
    IF refs = <<>> THEN <<>>
    ELSE (IF Head(refs)[3] # None THEN <<Head(refs)[3]>> ELSE <<>>)
         \o NamedInstruments(Tail(refs))

initGlobals_NoAssertion(c, q) ==
    IF c.butler = None THEN InitResult(None, <<>>)
    ELSE LET named == NamedInstruments(ChainedRefs(q))
         IN  InitResult(None, IF named = <<>> THEN <<>> ELSE <<Head(named)>>)

\* Mutant: the method does not return early without a full butler.
initGlobals_AnyButler(c, q) ==
    initGlobalsLoop(ChainedRefs(q), None, <<>>)

\* With no full butler the method returns at once.
initGlobals(c, q) ==
    IF c.butler = None THEN InitResult(None, <<>>)
    ELSE initGlobalsLoop(ChainedRefs(q), None, <<>>)

-----------------------------------------------------------------------------
(* The frame of one execute() call. *)

\* The frame at the entry of execute(): nothing done yet.
\*   pc          the step the call is at ("idle": no call in progress)
\*   q           the local variable quantum of _execute
\*   store0      the store when the call began
\*   refreshed   butler.registry.refresh() was called
\*   captured    the log capture region was entered
\*   captureLog  captureLog.store (True when the region is entered)
\*   phases      the names logInfo recorded in quantumMetadata, in order
\*   trace       the steps the call took, in order
\*   checked     what checkExistingOutputs did (ret None before it ran)
\*   pruned      the references handed to pruneDatasets
\*   puts        the references handed to limited_butler.put (task and metadata)
\*   built       namedUpdatedInputs of updatedQuantumInputs
\*   hookCalls   the calls of helper.adjust_in_place
\*   hookArgs    the mappings adjust_in_place was given
\*   taskRuns    the calls of task.runQuantum
\*   fullMetadata  the payload handed to writeMetadata: the task's record
\*               ("full" from task.getFullMetadata(), "empty" on the no-work
\*               path) and the phases under the "quantum" key
\*   written     the reference and payload of the metadata put
\*   path        "skip", "nowork" or "run": the path the call returns by
\*   outcome     how the call ended: "returned", the exception execute raised,
\*               or "exit" (sys.exit), None while it runs
\*   exitCode    the failure whose EXIT_CODE sys.exit was given
\*   result, report  what execute returned
\*   registered  the instruments initGlobals handed to Instrument.fromName
\*   taskOutcome how task.runQuantum ended (None while it has not run)
\*   again       a call of updatedQuantumInputs on the quantum execute()
\*               returned: whether it was made, the store it saw, the input
\*               references it found absent, its calls of adjust_in_place, whether it
\*               raised NoWorkFound, and the quantum it returned
\*   prev        how the executor's previous call of execute() went
NoMetadata == [task |-> None, quantum |-> <<>>]

\* QuantumReport(dataId=..., taskLabel=...)
QuantumReport(dataId, taskLabel) == [dataId |-> dataId, taskLabel |-> taskLabel]

\* No report.
NoReport == QuantumReport(None, None)

\* No call of updatedQuantumInputs on the returned quantum.
NotAgain ==
    [called |-> FALSE, store |-> {}, removed |-> {}, hookCalls |-> 0,
     noWork |-> FALSE, q |-> NoQuantum]

NewFrame ==
    [pc |-> "idle", q |-> NoQuantum, store0 |-> {}, refreshed |-> FALSE,
     captured |-> FALSE, captureLog |-> TRUE, phases |-> <<>>, trace |-> <<>>,
     checked |-> CheckResult(None, None, None, {}),
     pruned |-> {}, puts |-> {}, built |-> <<>>, hookCalls |-> 0,
     hookArgs |-> [inputs |-> <<>>, outputs |-> <<>>], taskRuns |-> 0,
     fullMetadata |-> NoMetadata,
     written |-> [ref |-> NoRef, payload |-> NoMetadata],
     path |-> None, outcome |-> None, exitCode |-> None,
     result |-> NoQuantum, report |-> NoReport,
     taskOutcome |-> None, again |-> NotAgain, registered |-> <<>>,
     prev |-> [path |-> None, outcome |-> None]]

\* Mutant: execute() returns the quantum with no report.
executeResult_NoReport(q, result) == [result |-> result, report |-> NoReport]

\* What execute() returns for the quantum q it was given when _execute
\* returned result.
executeResult(q, result) ==
    [result |-> result, report |-> QuantumReport(q.dataId, Label)]

\* Mutant: the assertion is not evaluated.
assertDataId_Off(q) == TRUE

\* assert quantum.dataId is not None: whether the assertion passes.
assertDataId(q) == q.dataId # None

\* Mutant: captureLog.store is not cleared before the check.
captureLogStore_NotCleared(ret) == TRUE

\* captureLog.store once checkExistingOutputs returned ret or raised: set to
\* False before the call and back to True only when it returned False.
captureLogStore(ret) == ret = "False"

\* Mutant: a record replaces the records before it.
logInfo_Overwrites(phases, name) == <<name>>

\* logInfo(None, name, metadata=quantumMetadata): one more record in
\* quantumMetadata, after those already there.
logInfo(phases, name) == Append(phases, name)

\* Mutant: the metadata of the no-work path without the "end" record.
noWorkMetadata_NoEnd(phases) == [task |-> "empty", quantum |-> phases]

\* The metadata the NoWorkFound handler of _execute builds: an empty record
\* under the task's label, and under "quantum" the phases recorded so far
\* with the "end" record.
noWorkMetadata(phases) == [task |-> "empty", quantum |-> logInfo(phases, "end")]

\* An exception leaves execute(): the call is over.
Raise(f, exc) == [f EXCEPT !.pc = "idle", !.outcome = exc]

\* sys.exit(err.EXIT_CODE): the process ends.
SysExit(f, err) == [f EXCEPT !.pc = "exited", !.outcome = "exit", !.exitCode = err]

-----------------------------------------------------------------------------
(* The steps of execute(). *)

\* execute() up to the call of checkExistingOutputs: the assertion on the
\* data ID, the registry refresh of a full butler, the entry of the log
\* capture region and the "prep" record.
Execute(e) ==
    /\ ex[e].pc = "idle"
    /\ LET new == [NewFrame EXCEPT !.prev = [path |-> ex[e].path,
                                             outcome |-> ex[e].outcome]]
       IN
       IF ~assertDataId(quantum)
       THEN ex' = [ex EXCEPT ![e] = Raise(new, "AssertionError")]
       ELSE ex' = [ex EXCEPT ![e] =
                [new EXCEPT !.pc = "check", !.q = quantum, !.store0 = store,
                                 !.refreshed = (cfg[e].butler # None),
                                 !.captured = TRUE, !.captureLog = TRUE,
                                 !.phases = logInfo(<<>>, "prep")]]
    /\ UNCHANGED <<cfg, quantum, store>>

\* captureLog.store = False; checkExistingOutputs; on True return the quantum,
\* on False captureLog.store = True.
CheckExistingOutputs(e) ==
    /\ ex[e].pc = "check"
    /\ LET f == ex[e]
           r == checkExistingOutputs(cfg[e], f.q, store)
           g == [f EXCEPT !.captureLog = captureLogStore(r.ret), !.checked = r,
                          !.trace = Append(@, "checkExistingOutputs"),
                          !.pruned = @ \cup r.prune]
       IN  /\ store' = store \ r.prune
           /\ ex' = [ex EXCEPT ![e] =
                 CASE r.ret = "True"  -> [g EXCEPT !.pc = "return", !.path = "skip"]
                   [] r.ret = "False" -> [g EXCEPT !.pc = "reconcile"]
                   [] OTHER           -> Raise(g, r.exc)]
    /\ UNCHANGED <<cfg, quantum>>

\* quantum = self.updatedQuantumInputs(...), and the NoWorkFound handler of
\* _execute up to its call of writeMetadata.  When the hook raises, the
\* assignment does not happen: the local quantum stays the one passed in.
UpdatedQuantumInputs(e) ==
    /\ ex[e].pc = "reconcile"
    /\ LET f       == ex[e]
           updated == updatedInputs(f.q, store)
           g       == [f EXCEPT !.built = updated,
                                !.trace = Append(@, "updatedQuantumInputs")]
       IN  IF anyChanges(f.q, store)
           THEN \E h \in AdjustResults(updated, f.q.outputs) :
                  LET g2 == [g EXCEPT !.hookCalls = @ + 1,
                                      !.hookArgs = [inputs |-> updated,
                                                    outputs |-> f.q.outputs]]
                  IN  ex' = [ex EXCEPT ![e] =
                        IF h.noWork
                        THEN [g2 EXCEPT !.pc = "writeMetadata", !.path = "nowork",
                                        !.phases = logInfo(@, "end"),
                                        !.fullMetadata = noWorkMetadata(f.phases)]
                        ELSE [g2 EXCEPT !.pc = "initGlobals",
                                        !.q = updatedQuantum(f.q, h.inputs, h.outputs)]]
           ELSE ex' = [ex EXCEPT ![e] =
                        [g EXCEPT !.pc = "initGlobals",
                                  !.q = updatedQuantum(f.q, updated, f.q.outputs)]]
    /\ UNCHANGED <<cfg, quantum, store>>

\* self.initGlobals(quantum); task_node.config.freeze(); the "init" record.
InitGlobals(e) ==
    /\ ex[e].pc = "initGlobals"
    /\ LET f == ex[e]
           g == [f EXCEPT !.trace = Append(@, "initGlobals"),
                          !.registered = initGlobals(cfg[e], f.q).registered]
       IN  ex' = [ex EXCEPT ![e] =
                IF initGlobals(cfg[e], f.q).exc = None
                THEN [g EXCEPT !.pc = "makeTask",
                               !.trace = Append(@, "freeze"),
                               !.phases = logInfo(@, "init")]
                ELSE Raise(g, "AssertionError")]
    /\ UNCHANGED <<cfg, quantum, store>>

\* task = self.taskFactory.makeTask(...); the "start" record.
MakeTask(e) ==
    /\ ex[e].pc = "makeTask"
    /\ ex' = [ex EXCEPT ![e] =
            [@ EXCEPT !.pc = "runQuantum",
                      !.trace = Append(@, "makeTask"),
                      !.phases = logInfo(@, "start")]]
    /\ UNCHANGED <<cfg, quantum, store>>

\* The references the task body may put: those of its output connections in
\* the quantum it is given.
TaskOutputRefs(q) ==
    IF OUT \in DOMAIN q.outputs THEN Range(q.outputs[OUT]) ELSE {}

\* self.runQuantum(task, quantum, ...) and what _execute does with its result:
\* the task body puts some of its outputs and returns or raises.  SystemExit
\* is no Exception and passes the handler of _execute; an exception
\* runQuantum lets through is logged and re-raised by it.  After a normal
\* return the "end" record and the full metadata.
RunQuantum(e) ==
    /\ ex[e].pc = "runQuantum"
    /\ \E out \in TaskOutcomes, written \in SUBSET TaskOutputRefs(ex[e].q) :
         LET f == ex[e]
             g == [f EXCEPT !.trace = Append(@, "runQuantum"),
                            !.taskRuns = @ + 1,
                            !.taskOutcome = out,
                            !.puts = @ \cup written]
         IN  /\ store' = store \cup written
             /\ ex' = [ex EXCEPT ![e] =
                   CASE runQuantum(cfg[e], out) = "return" ->
                          [g EXCEPT !.pc = "writeMetadata", !.path = "run",
                                    !.phases = logInfo(@, "end"),
                                    !.fullMetadata =
                                        [task |-> "full",
                                         quantum |-> logInfo(f.phases, "end")]]
                     [] runQuantum(cfg[e], out) = "exit" -> SysExit(g, out)
                     [] OTHER -> Raise(g, out)]
    /\ UNCHANGED <<cfg, quantum>>

\* self.writeMetadata(quantum, fullMetadata, ...): the put under the metadata
\* reference, or the exception.
WriteMetadata(e) ==
    /\ ex[e].pc = "writeMetadata"
    /\ LET f == ex[e]
           w == writeMetadata(f.q)
           g == [f EXCEPT !.trace = Append(@, "writeMetadata")]
       IN  IF w.exc = None
           THEN /\ store' = store \cup {w.ref}
                /\ ex' = [ex EXCEPT ![e] =
                      [g EXCEPT !.pc = "return", !.puts = @ \cup {w.ref},
                                !.written = [ref |-> w.ref, payload |-> f.fullMetadata]]]
           ELSE /\ store' = store
                /\ ex' = [ex EXCEPT ![e] = Raise(g, w.exc)]
    /\ UNCHANGED <<cfg, quantum>>

\* _execute returns the quantum; execute builds the report and returns both.
Return(e) ==
    /\ ex[e].pc = "return"
    /\ ex' = [ex EXCEPT ![e] =
            [@ EXCEPT !.pc = "idle", !.outcome = "returned",
                      !.result = executeResult(quantum, ex[e].q).result,
                      !.report = executeResult(quantum, ex[e].q).report]]
    /\ UNCHANGED <<cfg, quantum, store>>

\* The caller hands the quantum execute() returned after a run to
\* updatedQuantumInputs once more: the whole method, on the store as it is.
UpdatedQuantumInputsAgain(e) ==
    /\ ex[e].pc = "idle"
    /\ ex[e].outcome = "returned"
    /\ ex[e].path = "run"
    /\ ~ex[e].again.called
    /\ LET f       == ex[e]
           q       == f.result
           updated == updatedInputs(q, store)
           a       == [NotAgain EXCEPT !.called = TRUE, !.store = store,
                                       !.removed = AllRefs(q.inputs) \ AllRefs(updated)]
       IN  IF anyChanges(q, store)
           THEN \E h \in AdjustResults(updated, q.outputs) :
                  ex' = [ex EXCEPT ![e].again =
                        IF h.noWork
                        THEN [a EXCEPT !.hookCalls = 1, !.noWork = TRUE]
                        ELSE [a EXCEPT !.hookCalls = 1,
                                       !.q = updatedQuantum(q, h.inputs, h.outputs)]]
           ELSE ex' = [ex EXCEPT ![e].again =
                        [a EXCEPT !.q = updatedQuantum(q, updated, q.outputs)]]
    /\ UNCHANGED <<cfg, quantum, store>>

-----------------------------------------------------------------------------
(* Specifications. *)

\* The executors __init__ builds with skipExistingIn left at its default.
DefaultExecutors ==
    { Construct(b, None, clobber, exit, skip) :
        b \in {None, "full"}, clobber \in BOOLEAN, exit \in BOOLEAN, skip \in BOOLEAN }

\* The output mappings that hold exactly one metadata reference, as graph
\* generation builds them for the task that is executed.
AgreedOutputMappings(inst) ==
    {o \in OutputMappings(inst) :
        METADATA \in DOMAIN o /\ Len(o[METADATA]) = 1}

\* The quanta with output mappings in outs, at most one input reference and
\* data ID d.
QuantaWith(d, outs) ==
    { Quantum("Task", "TaskClass", d, InitInputs("HSC"), i, o) :
        i \in InputMappings("HSC", 1), o \in outs }

\* The quanta of SpecReconcile: any input mapping within the bounds, one
\* metadata reference and one data output.
ReconcileQuanta ==
    { Quantum("Task", "TaskClass", "dataId", InitInputs("HSC"), i,
              [t \in {METADATA, OUT} |-> RefList(t, 1, "HSC")]) :
        i \in InputMappings("HSC", MaxInputRefs) }

\* One executor, a quantum, and a store holding any of the quantum's
\* references (what earlier runs left behind).  The quantum's outputs are
\* those graph generation builds, or ones that disagree with the task on the
\* metadata output (the case writeMetadata reports), and the quantum may lack
\* a data ID.
Init ==
    /\ \E c \in DefaultExecutors : cfg = [e \in Executors |-> c]
    /\ \/ quantum \in QuantaWith("dataId", AgreedOutputMappings("HSC"))
       \/ quantum \in QuantaWith("dataId", OutputMappings("HSC")
                                             \ AgreedOutputMappings("HSC"))
       \/ quantum \in QuantaWith(None, OutputMappings("HSC"))
    /\ store \in SUBSET (AllRefs(quantum.inputs) \cup AllRefs(quantum.outputs))
    /\ ex = [e \in Executors |-> NewFrame]

\* One executor, a quantum of ReconcileQuanta, and a store holding any of its
\* inputs and none of its outputs.
InitReconcile ==
    /\ \E c \in DefaultExecutors : cfg = [e \in Executors |-> c]
    /\ quantum \in ReconcileQuanta
    /\ store \in SUBSET AllRefs(quantum.inputs)
    /\ ex = [e \in Executors |-> NewFrame]

\* The steps of executor e.
Step(e) ==
    \/ Execute(e)
    \/ CheckExistingOutputs(e)
    \/ UpdatedQuantumInputs(e)
    \/ InitGlobals(e)
    \/ MakeTask(e)
    \/ RunQuantum(e)
    \/ WriteMetadata(e)
    \/ Return(e)

\* One executor runs execute() on the quantum again and again.
Next == Step("e1")

Spec == Init /\ [][Next]_vars

\* The same executor on quanta with more inputs.
SpecReconcile == InitReconcile /\ [][Next]_vars

\* The executor, and a caller that reconciles the returned quantum again.
NextAgain == Step("e1") \/ UpdatedQuantumInputsAgain("e1")

SpecAgain == InitReconcile /\ [][NextAgain]_vars

\* The quanta of SpecInstruments: one input, one metadata and one data
\* output reference, each with any instrument or none in its data ID.
InstrumentQuanta ==
    { Quantum("Task", "TaskClass", "dataId", InitInputs("HSC"),
              [t \in InputTypes |-> IF t = "inA" THEN RefList(t, 1, i1) ELSE <<>>],
              [t \in {METADATA, OUT} |->
                    IF t = METADATA THEN RefList(t, 1, i2) ELSE RefList(t, 1, i3)]) :
        i1 \in Instruments, i2 \in Instruments, i3 \in Instruments }

\* One executor, a quantum of InstrumentQuanta, and a store that holds its
\* input or not and none of its outputs.
InitInstruments ==
    /\ \E c \in DefaultExecutors : cfg = [e \in Executors |-> c]
    /\ quantum \in InstrumentQuanta
    /\ store \in SUBSET AllRefs(quantum.inputs)
    /\ ex = [e \in Executors |-> NewFrame]

\* The executor on quanta whose references name different instruments.
SpecInstruments == InitInstruments /\ [][Next]_vars

\* The quanta of SpecRetry: outputs with one metadata reference, at most one
\* input reference.
RetryQuanta == QuantaWith("dataId", AgreedOutputMappings("HSC"))

\* One executor, a quantum of RetryQuanta whose inputs are all stored and
\* whose outputs are not.
InitRetry ==
    /\ \E c \in DefaultExecutors : cfg = [e \in Executors |-> c]
    /\ quantum \in RetryQuanta
    /\ store = AllRefs(quantum.inputs)
    /\ ex = [e \in Executors |-> NewFrame]

\* The caller calls execute() the first time, and again after a call that
\* did not return.
Retry(e) ==
    /\ ex[e].outcome # "returned"
    /\ Execute(e)

\* After sys.exit a new process builds the executor with the same arguments.
Restart(e) ==
    /\ ex[e].pc = "exited"
    /\ ex' = [ex EXCEPT ![e].pc = "idle"]
    /\ UNCHANGED <<cfg, quantum, store>>

NextRetry ==
    \/ Retry("e1")
    \/ CheckExistingOutputs("e1")
    \/ UpdatedQuantumInputs("e1")
    \/ InitGlobals("e1")
    \/ MakeTask("e1")
    \/ RunQuantum("e1")
    \/ WriteMetadata("e1")
    \/ Return("e1")
    \/ Restart("e1")

\* The task body runs and returns or signals no-work.
TaskSucceeds(e) ==
    /\ RunQuantum(e)
    /\ ex'[e].taskOutcome \in {"ok", "NoWorkFound"}

\* The executor retried after every failure: every step that can be taken is
\* taken, and a task body that is run again and again succeeds in the end.
SpecRetry ==
    /\ InitRetry
    /\ [][NextRetry]_vars
    /\ WF_vars(NextRetry)
    /\ SF_vars(TaskSucceeds("e1"))

\* Two executors with the same attributes, built for the same quantum: one
\* metadata and one data output, no inputs, and a store that holds none of
\* its outputs.
InitConcurrent ==
    /\ \/ \E c \in {d \in DefaultExecutors : ~d.clobberOutputs /\ ~d.skipExisting} :
             cfg = [e \in Executors |-> c]
       \/ \E c \in {d \in DefaultExecutors : d.clobberOutputs \/ d.skipExisting} :
             cfg = [e \in Executors |-> c]
    /\ quantum = Quantum("Task", "TaskClass", "dataId", InitInputs("HSC"),
                         [t \in InputTypes |-> <<>>],
                         [t \in {METADATA, OUT} |-> RefList(t, 1, "HSC")])
    /\ store = {}
    /\ ex = [e \in Executors |-> NewFrame]

\* The scheduler hands the quantum to executor e, once.
Submit(e) ==
    /\ ex[e].outcome = None
    /\ Execute(e)

\* Either executor takes its next step: the calls interleave at the
\* granularity of the store operations.
NextConcurrent ==
    \E e \in Executors :
        \/ Submit(e)
        \/ CheckExistingOutputs(e)
        \/ UpdatedQuantumInputs(e)
        \/ InitGlobals(e)
        \/ MakeTask(e)
        \/ RunQuantum(e)
        \/ WriteMetadata(e)
        \/ Return(e)

SpecConcurrent == InitConcurrent /\ [][NextConcurrent]_vars

-----------------------------------------------------------------------------
(* Notions the properties share. *)

\* The executor's call went through checkExistingOutputs.
Checked(f) == f.checked.ret # None

\* The quantum declares exactly one metadata output reference.
HasMetadataRef(q) ==
    /\ METADATA \in DOMAIN q.outputs
    /\ Len(q.outputs[METADATA]) = 1

\* The quantum's metadata output reference is stored in st.
MetadataStored(q, st) ==
    /\ HasMetadataRef(q)
    /\ q.outputs[METADATA][1] \in st

\* The references of the quantum's outputs stored in st.
StoredOutputs(q, st) == AllRefs(q.outputs) \cap st

\* The quantum declares outputs and all of them are stored in st.
AllOutputsStored(q, st) ==
    /\ AllRefs(q.outputs) # {}
    /\ AllRefs(q.outputs) \subseteq st

\* A strict nonempty subset of the quantum's outputs is stored in st.
PartialOutputsStored(q, st) ==
    /\ StoredOutputs(q, st) # {}
    /\ StoredOutputs(q, st) # AllRefs(q.outputs)

\* The call neither pruned nor put anything nor ran the task, and the store is
\* as it was when the call began.
NoWrites(f) ==
    /\ f.pruned = {}
    /\ f.puts = {}
    /\ f.taskRuns = 0
    /\ "makeTask" \notin Range(f.trace)
    /\ store = f.store0

\* The call went on from checkExistingOutputs to the reconciliation of inputs.
Proceeds(f) ==
    /\ f.pc # "check"
    /\ f.path # "skip"
    /\ f.pc = "reconcile" \/ (Len(f.trace) >= 2 /\ f.trace[2] = "updatedQuantumInputs")

\* checkExistingOutputs raised exc and execute() ended with it.
FailsWith(f, exc) ==
    /\ f.checked.ret = "raise"
    /\ f.checked.exc = exc
    /\ f.pc = "idle"
    /\ f.outcome = exc

-----------------------------------------------------------------------------
(* C1 *)

C1_SkipWhenStored ==
    \A e \in Executors :
        LET f == ex[e]
        IN  (cfg[e].skipExisting /\ f.captured /\ MetadataStored(quantum, f.store0)) =>
                /\ NoWrites(f)
                /\ f.pc \in {"check", "return", "idle"}
                /\ f.pc # "check" => (f.checked.ret = "True" /\ f.path = "skip")
                /\ f.pc = "idle" => (f.outcome = "returned" /\ f.result = quantum)

C1_StaysStored ==
    \A e \in Executors :
        (cfg[e].skipExisting /\ MetadataStored(quantum, store))
            => MetadataStored(quantum, store')

\* C1: with skipExisting, once the quantum's metadata output reference is
\* stored it stays stored, and every execute() call that begins with it stored
\* constructs no task, runs no task body, prunes nothing, puts nothing and
\* returns the quantum through the skip path.
C1_NoReexecution == [](C1_SkipWhenStored) /\ [][C1_StaysStored]_vars

\* A call that wrote the metadata was followed by a call that skipped.
C1_Witness ==
    LET f == ex["e1"]
    IN  /\ cfg["e1"].skipExisting
        /\ f.prev.path \in {"run", "nowork"}
        /\ f.prev.outcome = "returned"
        /\ MetadataStored(quantum, f.store0)
        /\ f.pc = "idle" /\ f.outcome = "returned" /\ f.path = "skip"

-----------------------------------------------------------------------------
(* C2 *)

\* A previous execution appears complete: the metadata output is stored, or
\* all declared outputs are.
AppearsComplete(q, st) ==
    MetadataStored(q, st) \/ AllOutputsStored(q, st)

\* C2: checkExistingOutputs returns True if skipExisting is set and a previous
\* execution appears complete, and returns False or raises otherwise; with
\* all outputs stored and skipExisting it returns True and the task body is
\* not run.
C2_TrueIffComplete ==
    \A e \in Executors :
        LET f == ex[e]
            complete == cfg[e].skipExisting /\ AppearsComplete(quantum, f.store0)
        IN  Checked(f) =>
                /\ complete => f.checked.ret = "True"
                /\ ~complete => f.checked.ret \in {"False", "raise"}
                /\ (cfg[e].skipExisting /\ AllOutputsStored(quantum, f.store0))
                        => (f.checked.ret = "True" /\ f.taskRuns = 0)

-----------------------------------------------------------------------------
(* C3 *)

\* C3: with all declared outputs stored and neither skipExisting nor
\* clobberOutputs, checkExistingOutputs raises RuntimeError, execute() ends
\* with it, and nothing was pruned or put, no task was run and the store is
\* unchanged.
C3_CompleteConflict ==
    \A e \in Executors :
        LET f == ex[e]
        IN  (Checked(f) /\ ~cfg[e].skipExisting /\ ~cfg[e].clobberOutputs
                /\ AllOutputsStored(quantum, f.store0)) =>
                /\ FailsWith(f, "RuntimeError")
                /\ NoWrites(f)

\* A call on complete outputs with neither flag set has ended.
C3_Witness ==
    LET f == ex["e1"]
    IN  /\ ~cfg["e1"].skipExisting /\ ~cfg["e1"].clobberOutputs
        /\ AllOutputsStored(quantum, f.store0)
        /\ Cardinality(AllRefs(quantum.outputs)) >= 2
        /\ f.outcome = "RuntimeError"

-----------------------------------------------------------------------------
(* C4 *)

\* checkExistingOutputs pruned every stored output, returned False, and the
\* call went on.
PrunedAndProceeds(f, refs) ==
    /\ f.checked.ret = "False"
    /\ f.checked.prune = refs
    /\ refs \subseteq f.pruned
    /\ f.pc = "reconcile" => store = f.store0 \ refs
    /\ Proceeds(f)

\* C4 as stated: with all declared outputs stored and clobberOutputs,
\* checkExistingOutputs prunes all existing outputs and returns False.
C4_AsStated ==
    \A e \in Executors :
        LET f == ex[e]
        IN  (Checked(f) /\ cfg[e].clobberOutputs
                /\ AllOutputsStored(quantum, f.store0)) =>
                PrunedAndProceeds(f, AllRefs(quantum.outputs))

\* C4, amended: with all declared outputs stored, clobberOutputs set and
\* skipExisting not set, checkExistingOutputs prunes all existing outputs and
\* returns False, and execution proceeds.
C4_ClobberComplete ==
    \A e \in Executors :
        LET f == ex[e]
        IN  (Checked(f) /\ cfg[e].clobberOutputs /\ ~cfg[e].skipExisting
                /\ AllOutputsStored(quantum, f.store0)) =>
                PrunedAndProceeds(f, AllRefs(quantum.outputs))

\* Complete outputs were pruned and the task body ran.
C4_Witness ==
    LET f == ex["e1"]
    IN  /\ cfg["e1"].clobberOutputs /\ ~cfg["e1"].skipExisting
        /\ AllOutputsStored(quantum, f.store0)
        /\ Cardinality(f.pruned) >= 2
        /\ f.taskRuns = 1

-----------------------------------------------------------------------------
(* C5 *)

\* C5: with skipExisting and clobberOutputs both set, checkExistingOutputs
\* prunes nothing for a quantum whose outputs are complete, and whatever it
\* prunes are stored outputs of a quantum with at least one missing output.
C5_OnlyPartialRemoved ==
    \A e \in Executors :
        LET f == ex[e]
        IN  (Checked(f) /\ cfg[e].skipExisting /\ cfg[e].clobberOutputs) =>
                /\ AllOutputsStored(quantum, f.store0) => f.checked.prune = {}
                /\ f.checked.prune # {} =>
                        /\ f.checked.prune \subseteq StoredOutputs(quantum, f.store0)
                        /\ \E r \in AllRefs(quantum.outputs) : r \notin f.store0

\* Both flags set: a call pruned the partial outputs an earlier failed call
\* left behind.
C5_Witness ==
    LET f == ex["e1"]
    IN  /\ cfg["e1"].skipExisting /\ cfg["e1"].clobberOutputs
        /\ f.prev.outcome = "Exception"
        /\ f.checked.prune # {}

-----------------------------------------------------------------------------
(* C6 *)

\* C6 as stated: with a strict nonempty subset of the outputs stored and
\* clobberOutputs, checkExistingOutputs prunes exactly the stored subset and
\* returns False.
C6_AsStated ==
    \A e \in Executors :
        LET f == ex[e]
        IN  (Checked(f) /\ cfg[e].clobberOutputs
                /\ PartialOutputsStored(quantum, f.store0)) =>
                PrunedAndProceeds(f, StoredOutputs(quantum, f.store0))

\* With skipExisting the metadata check comes first; it lets the rest of
\* the method run when the quantum's one metadata reference is not stored.
PastMetadataCheck(c, q, st) ==
    c.skipExisting => (HasMetadataRef(q) /\ ~MetadataStored(q, st))

\* C6, amended: with a strict nonempty subset of the outputs stored and
\* clobberOutputs, and skipExisting not set or the quantum's metadata
\* reference not stored, checkExistingOutputs prunes exactly the stored subset
\* and returns False, and execution proceeds.
C6_ClobberPartial ==
    \A e \in Executors :
        LET f == ex[e]
        IN  (Checked(f) /\ cfg[e].clobberOutputs
                /\ PartialOutputsStored(quantum, f.store0)
                /\ PastMetadataCheck(cfg[e], quantum, f.store0)) =>
                PrunedAndProceeds(f, StoredOutputs(quantum, f.store0))

\* Partial outputs were pruned under skipExisting and the call went on.
C6_Witness ==
    LET f == ex["e1"]
    IN  /\ cfg["e1"].clobberOutputs /\ cfg["e1"].skipExisting
        /\ PartialOutputsStored(quantum, f.store0)
        /\ f.pruned # {}
        /\ f.pruned # AllRefs(quantum.outputs)
        /\ f.pc = "initGlobals"

-----------------------------------------------------------------------------
(* C7 *)

\* C7 as stated: with a strict nonempty subset of the outputs stored and
\* clobberOutputs not set, checkExistingOutputs raises RuntimeError and nothing
\* is pruned or put and no task is run.
C7_AsStated ==
    \A e \in Executors :
        LET f == ex[e]
        IN  (Checked(f) /\ ~cfg[e].clobberOutputs
                /\ PartialOutputsStored(quantum, f.store0)) =>
                /\ FailsWith(f, "RuntimeError")
                /\ NoWrites(f)

\* C7, amended: with a strict nonempty subset of the outputs stored and
\* clobberOutputs not set, nothing is pruned or put and no task is run; and
\* checkExistingOutputs raises RuntimeError if skipExisting is not set or the
\* quantum's metadata reference is not stored.
C7_PartialConflict ==
    \A e \in Executors :
        LET f == ex[e]
        IN  (Checked(f) /\ ~cfg[e].clobberOutputs
                /\ PartialOutputsStored(quantum, f.store0)) =>
                /\ NoWrites(f)
                /\ PastMetadataCheck(cfg[e], quantum, f.store0)
                        => FailsWith(f, "RuntimeError")

\* A call on partial outputs without clobberOutputs ended with RuntimeError.
C7_Witness ==
    LET f == ex["e1"]
    IN  /\ ~cfg["e1"].clobberOutputs
        /\ PartialOutputsStored(quantum, f.store0)
        /\ f.checked.msg = "partial"
        /\ f.outcome = "RuntimeError"

-----------------------------------------------------------------------------
(* C8 *)

\* The call went through writeMetadata.
WroteMetadata(f) == "writeMetadata" \in Range(f.trace)

\* The references of the metadata dataset type in the quantum's outputs.
MetadataRefs(q) ==
    IF METADATA \in DOMAIN q.outputs THEN Range(q.outputs[METADATA]) ELSE {}

\* C8: writeMetadata puts the payload under the one reference of the metadata
\* dataset type; when the outputs do not hold exactly one such reference it
\* raises InvalidQuantumError and puts nothing.
C8_MetadataTarget ==
    \A e \in Executors :
        LET f == ex[e]
            refs == MetadataRefs(f.q)
        IN  WroteMetadata(f) =>
                IF Cardinality(refs) = 1
                THEN /\ f.written.ref \in refs
                     /\ f.written.ref \in f.puts
                     /\ f.written.ref \in store
                     /\ f.pc \in {"return", "idle"}
                     /\ f.pc = "idle" => f.outcome = "returned"
                ELSE /\ f.outcome = "InvalidQuantumError"
                     /\ f.written.ref = NoRef
                     /\ f.puts \cap refs = {}

-----------------------------------------------------------------------------
(* C9 *)

\* The call went through updatedQuantumInputs.
Reconciled(f) == "updatedQuantumInputs" \in Range(f.trace)

\* C9: adjust_in_place is called exactly once when an input reference of the
\* quantum was absent from the store, and never when none was.
C9_HookOnceIffRemoved ==
    \A e \in Executors :
        LET f == ex[e]
            removed == \E r \in AllRefs(quantum.inputs) : r \notin f.store0
        IN  Reconciled(f) => f.hookCalls = (IF removed THEN 1 ELSE 0)

\* The hook ran once for a list that lost one of its two references, and has
\* not run for a quantum that lost none.
C9_Witness ==
    LET f == ex["e1"]
    IN  /\ Reconciled(f)
        /\ f.hookCalls = 1
        /\ \E k \in InputTypes :
              Len(quantum.inputs[k]) = 2 /\ Len(f.built[k]) = 1

-----------------------------------------------------------------------------
(* C10 *)

\* C10: the mapping updatedQuantumInputs builds before the hook holds, for
\* every input dataset type of the quantum, exactly the stored references of
\* the original list in their original order, and the method does not raise
\* for a missing input.
C10_BuiltInputs ==
    \A e \in Executors :
        LET f == ex[e]
        IN  Reconciled(f) =>
                /\ DOMAIN f.built = DOMAIN quantum.inputs
                /\ \A k \in DOMAIN quantum.inputs :
                      /\ Range(f.built[k]) = Range(quantum.inputs[k]) \cap f.store0
                      /\ f.built[k] \in SubSeqs(quantum.inputs[k])
                /\ f.trace[Len(f.trace)] = "updatedQuantumInputs"
                      => f.pc \in {"initGlobals", "writeMetadata"}

\* A list of two references lost its first and kept its second.
C10_Witness ==
    LET f == ex["e1"]
    IN  /\ Reconciled(f)
        /\ \E k \in InputTypes :
              /\ Len(quantum.inputs[k]) = 2
              /\ f.built[k] = <<quantum.inputs[k][2]>>

-----------------------------------------------------------------------------
(* C11 *)

\* The store reports the same input references of the quantum in st1 and st2.
SameInputsStored(q, st1, st2) ==
    st1 \cap AllRefs(q.inputs) = st2 \cap AllRefs(q.inputs)

\* C11: when updatedQuantumInputs is applied to the quantum it returned and
\* the store reports the same inputs as before, it finds no input absent,
\* does not call adjust_in_place, and returns a quantum with the same inputs
\* and outputs.
C11_Idempotent ==
    \A e \in Executors :
        LET f == ex[e]
            a == f.again
        IN  (a.called /\ SameInputsStored(quantum, a.store, f.store0)) =>
                /\ a.removed = {}
                /\ a.hookCalls = 0
                /\ ~a.noWork
                /\ a.q.inputs = f.result.inputs
                /\ a.q.outputs = f.result.outputs

\* The first application found an input absent and its hook removed another
\* input and an output; the second application returned the same quantum.
C11_Witness ==
    LET f == ex["e1"]
        a == f.again
    IN  /\ a.called
        /\ f.hookCalls = 1
        /\ f.result.inputs # f.built
        /\ f.result.outputs # quantum.outputs
        /\ a.q = f.result

-----------------------------------------------------------------------------
(* C12 *)

\* No step changes the quantum that was submitted.
C12_OriginalKept == quantum' = quantum

\* The quantum the call holds after updatedQuantumInputs returned.
C12_NewQuantum ==
    \A e \in Executors :
        LET f == ex[e]
        IN  /\ (Reconciled(f) /\ f.path # "nowork") =>
                  /\ f.q.taskName = quantum.taskName
                  /\ f.q.taskClass = quantum.taskClass
                  /\ f.q.dataId = quantum.dataId
                  /\ f.q.initInputs = quantum.initInputs
                  /\ \A k \in DOMAIN f.q.inputs : f.q.inputs[k] \in SubSeqs(quantum.inputs[k])
                  /\ \A k \in DOMAIN f.q.outputs : f.q.outputs[k] \in SubSeqs(quantum.outputs[k])
            /\ f.hookCalls > 0 =>
                  f.hookArgs = [inputs |-> f.built, outputs |-> quantum.outputs]

\* C12: updatedQuantumInputs leaves the quantum it was given unchanged and
\* returns a quantum with the same taskName, taskClass, dataId and initInputs,
\* whose inputs and outputs are the original's with references removed; the
\* hook is given the reduced inputs and the original outputs.
C12_NewQuantumFrame == [](C12_NewQuantum) /\ [][C12_OriginalKept]_vars

\* The hook was called with reduced inputs and returned fewer outputs: the
\* new quantum differs from the original in inputs and outputs only.
C12_Witness ==
    LET f == ex["e1"]
    IN  /\ f.pc = "initGlobals"
        /\ f.hookCalls = 1
        /\ f.q.inputs # quantum.inputs
        /\ f.q.outputs # quantum.outputs
        /\ f.q.initInputs # <<>>

-----------------------------------------------------------------------------
(* C13 *)

\* C13: when the task body raises InvalidQuantumError the process ends
\* through sys.exit with that error's exit code, whatever exitOnKnownError
\* and the other attributes are; execute() neither raises the error nor
\* returns.
C13_InvalidAlwaysExits ==
    \A e \in Executors :
        LET f == ex[e]
        IN  f.taskOutcome = "InvalidQuantumError" =>
                /\ f.pc = "exited"
                /\ f.outcome = "exit"
                /\ f.exitCode = "InvalidQuantumError"
                /\ f.result = NoQuantum

\* The process ended on InvalidQuantumError with exitOnKnownError off.
C13_Witness ==
    LET f == ex["e1"]
    IN  /\ ~cfg["e1"].exitOnKnownError
        /\ f.taskOutcome = "InvalidQuantumError"
        /\ f.pc = "exited"

-----------------------------------------------------------------------------
(* C14 *)

\* C14: when the task body raises RepeatableQuantumError, with
\* exitOnKnownError the process ends through sys.exit with that error's exit
\* code, and without it execute() raises the same error and the process
\* goes on.
C14_RepeatableByFlag ==
    \A e \in Executors :
        LET f == ex[e]
        IN  f.taskOutcome = "RepeatableQuantumError" =>
                IF cfg[e].exitOnKnownError
                THEN /\ f.pc = "exited"
                     /\ f.outcome = "exit"
                     /\ f.exitCode = "RepeatableQuantumError"
                ELSE /\ f.pc = "idle"
                     /\ f.outcome = "RepeatableQuantumError"
                     /\ f.exitCode = None
                     /\ f.result = NoQuantum

\* With exitOnKnownError off the error reached the caller, who called
\* execute() again and met it again.
C14_Witness ==
    LET f == ex["e1"]
    IN  /\ ~cfg["e1"].exitOnKnownError
        /\ f.prev.outcome = "RepeatableQuantumError"
        /\ f.taskOutcome = "RepeatableQuantumError"
        /\ f.pc = "idle"

-----------------------------------------------------------------------------
(* C15 *)

\* The metadata a call that ran the task hands to writeMetadata.
RunMetadata == [task |-> "full", quantum |-> <<"prep", "init", "start", "end">>]

\* C15: when the task body raises NoWorkFound, runQuantum returns and the
\* call goes on to writeMetadata as after a task that returned; for a quantum
\* with its metadata output reference the metadata of the run is put under
\* that reference and execute() returns the quantum and the report.
C15_NoWorkInTaskIsSuccess ==
    \A e \in Executors :
        LET f == ex[e]
        IN  f.taskOutcome = "NoWorkFound" =>
                /\ f.exitCode = None
                /\ f.path = "run"
                /\ f.fullMetadata = RunMetadata
                /\ f.pc = "writeMetadata" \/ WroteMetadata(f)
                /\ (HasMetadataRef(f.q) /\ f.pc # "writeMetadata") =>
                      /\ f.written = [ref |-> f.q.outputs[METADATA][1],
                                      payload |-> RunMetadata]
                      /\ f.written.ref \in f.puts
                      /\ f.pc \in {"return", "idle"}
                      /\ f.pc = "idle" =>
                            /\ f.outcome = "returned"
                            /\ f.result = f.q
                            /\ f.report = QuantumReport(quantum.dataId, Label)

\* execute() returned after the task body raised NoWorkFound, with the
\* metadata stored.
C15_Witness ==
    LET f == ex["e1"]
    IN  /\ f.taskOutcome = "NoWorkFound"
        /\ f.outcome = "returned"
        /\ f.written.ref \in store
        /\ f.written.ref # NoRef

-----------------------------------------------------------------------------
(* C16 *)

\* C16: an exception of the task body that is none of NoWorkFound,
\* RepeatableQuantumError and InvalidQuantumError leaves execute() as it was
\* raised; the process goes on and execute() returns no quantum and no report.
C16_OtherReraised ==
    \A e \in Executors :
        LET f == ex[e]
        IN  f.taskOutcome = "Exception" =>
                /\ f.pc = "idle"
                /\ f.outcome = "Exception"
                /\ f.exitCode = None
                /\ f.result = NoQuantum
                /\ f.report = NoReport
                /\ ~WroteMetadata(f)

\* The task body put an output and raised; execute() ended with its exception.
C16_Witness ==
    LET f == ex["e1"]
    IN  /\ f.taskOutcome = "Exception"
        /\ f.outcome = "Exception"
        /\ f.puts # {}

-----------------------------------------------------------------------------
(* C17 *)

\* What a call on the no-work path of reconciliation does, but for the
\* quantum it returns: the hook was called once, no global state was
\* initialised, no task made or run, and the metadata holds an empty record
\* for the task and the prep and end records under "quantum"; for a quantum
\* with its one metadata output reference that payload is put under it, it is
\* the call's only put, and execute() returns.
NoWorkPath(f) ==
    /\ f.hookCalls = 1
    /\ f.taskRuns = 0
    /\ f.taskOutcome = None
    /\ Range(f.trace) \cap {"initGlobals", "freeze", "makeTask", "runQuantum"} = {}
    /\ f.fullMetadata = [task |-> "empty", quantum |-> <<"prep", "end">>]
    /\ f.pc = "writeMetadata" \/ WroteMetadata(f)
    /\ (HasMetadataRef(quantum) /\ f.pc # "writeMetadata") =>
          /\ f.written = [ref |-> quantum.outputs[METADATA][1],
                          payload |-> f.fullMetadata]
          /\ f.puts = {f.written.ref}
          /\ f.written.ref \in store
          /\ f.pc \in {"return", "idle"}
          /\ f.pc = "idle" => f.outcome = "returned"

\* C17 as stated: when the adjustment hook signals no-work, execute() returns
\* a quantum whose inputs are the original's with the absent references
\* removed, writes the metadata of prep and end with an empty task record, and
\* never makes the task or runs its body.
C17_AsStated ==
    \A e \in Executors :
        LET f == ex[e]
        IN  f.path = "nowork" =>
                /\ NoWorkPath(f)
                /\ (f.pc = "idle" /\ f.outcome = "returned") =>
                        f.result.inputs = f.built

\* C17, amended: when the adjustment hook signals no-work, execute() returns
\* the quantum it was given, its inputs still holding the absent references,
\* writes the metadata of prep and end with an empty task record, and never
\* makes the task or runs its body.
C17_HookNoWork ==
    \A e \in Executors :
        LET f == ex[e]
        IN  f.path = "nowork" =>
                /\ NoWorkPath(f)
                /\ (f.pc = "idle" /\ f.outcome = "returned") =>
                        /\ f.result = quantum
                        /\ f.result.inputs # f.built

\* execute() returned through the no-work path with the metadata stored.
C17_Witness ==
    LET f == ex["e1"]
    IN  /\ f.path = "nowork"
        /\ f.outcome = "returned"
        /\ f.written.ref \in store
        /\ f.written.payload.task = "empty"

-----------------------------------------------------------------------------
(* C18 *)

\* A call of execute() that returned.
Returned(f) == f.pc = "idle" /\ f.outcome = "returned"

\* C18: a call of execute() that returned has returned one report with the
\* submitted quantum's data ID and the task's label, and a quantum: on the
\* skip path the submitted quantum, after a run the quantum
\* updatedQuantumInputs built (the stored inputs, less what the hook removed);
\* a call that did not return has returned no report.
C18_ReportAndQuantum ==
    \A e \in Executors :
        LET f == ex[e]
        IN  /\ ~Returned(f) => (f.report = NoReport /\ f.result = NoQuantum)
            /\ Returned(f) =>
                  /\ f.path \in {"skip", "nowork", "run"}
                  /\ f.report = QuantumReport(quantum.dataId, Label)
                  /\ f.report.dataId # None
                  /\ f.path = "skip" => f.result = quantum
                  /\ f.path = "run" =>
                        /\ f.result = f.q
                        /\ \A k \in DOMAIN quantum.inputs :
                              f.result.inputs[k] \in SubSeqs(f.built[k])
                        /\ AllRefs(f.result.inputs) \subseteq f.store0
                        /\ f.hookCalls = 0 =>
                              f.result = updatedQuantum(quantum, f.built, quantum.outputs)

\* A run returned a quantum that lost an input, and the call before it on the
\* same executor had returned too.
C18_Witness ==
    LET f == ex["e1"]
    IN  /\ Returned(f)
        /\ f.path = "run"
        /\ f.result # quantum
        /\ f.report = QuantumReport("dataId", Label)
        /\ f.prev.outcome = "returned"

-----------------------------------------------------------------------------
(* C19 *)

\* The call of executor e invoked the task body and put some of the quantum's
\* outputs.
Produced(e) == ex[e].taskRuns > 0 /\ ex[e].puts # {}

\* The call of executor e ended by the skip path or with the RuntimeError of
\* checkExistingOutputs.
SkippedOrConflict(e) ==
    \/ ex[e].path = "skip"
    \/ FailsWith(ex[e], "RuntimeError")

\* C19: when two executors are handed the same quantum and their steps
\* interleave, at most one of them invokes the task body and puts outputs or
\* metadata, and the other, when its call ended without the task body, has
\* skipped or failed with the error of checkExistingOutputs.
C19_AtMostOnce ==
    \A e1, e2 \in Executors :
        (e1 # e2 /\ Produced(e1)) =>
            /\ ~Produced(e2)
            /\ (ex[e2].pc = "idle" /\ ex[e2].outcome # None /\ ex[e2].taskRuns = 0)
                    => SkippedOrConflict(e2)

-----------------------------------------------------------------------------
(* C20 *)

\* C20: an executor constructed with skipExisting=True, whatever its other
\* arguments, skips a quantum whose metadata output is stored: the call
\* neither prunes nor puts nor runs the task and returns by the skip path; and
\* the executor's skipExisting is True whenever skipExistingIn holds
\* butler.run.
C20_SkipExistingArgument ==
    \A e \in Executors, b \in {None, "full"}, skipIn \in SkipExistingInValues,
       clobber \in BOOLEAN, exit \in BOOLEAN :
        LET f == ex[e]
        IN  /\ (/\ cfg[e] = Construct(b, skipIn, clobber, exit, TRUE)
                /\ Checked(f)
                /\ MetadataStored(quantum, f.store0)) =>
                    /\ f.checked.ret = "True"
                    /\ NoWrites(f)
                    /\ f.pc = "idle" => (f.outcome = "returned" /\ f.path = "skip")
            /\ (b = "full" /\ skipIn = "with_run") =>
                    \A skip \in BOOLEAN :
                        Construct(b, skipIn, clobber, exit, skip).skipExisting

-----------------------------------------------------------------------------
(* C21 *)

\* C21: an executor constructed with butler=None never hands a reference to
\* pruneDatasets and never removes a dataset from the store, whatever its
\* clobberOutputs.
C21_NoPruneWithoutButler ==
    \A e \in Executors :
        LET f == ex[e]
        IN  cfg[e].butler = None =>
                /\ f.pruned = {}
                /\ f.checked.prune = {}
                /\ f.store0 \subseteq store

-----------------------------------------------------------------------------
(* C22 *)

\* The steps of a call that runs the task, in the order of _execute.
RunSteps ==
    <<"checkExistingOutputs", "updatedQuantumInputs", "initGlobals", "freeze",
      "makeTask", "runQuantum", "writeMetadata">>

\* The steps of a call whose reconciliation signalled no-work.
NoWorkSteps == <<"checkExistingOutputs", "updatedQuantumInputs", "writeMetadata">>

\* s is t or a beginning of t.
IsPrefix(s, t) == Len(s) <= Len(t) /\ s = SubSeq(t, 1, Len(s))

\* C22: the steps a call of execute() took are a beginning of the sequence
\* check, reconciliation, global initialisation, config freeze, task
\* construction, task body, metadata write (or check, reconciliation,
\* metadata write on the no-work path), so each happened at most once and in
\* that order; the task body ran only after the check returned False and the
\* reconciliation returned; and the metadata put after a task run holds the
\* records prep, init, start, end in that order.
C22_StepOrder ==
    \A e \in Executors :
        LET f == ex[e]
        IN  /\ IF f.path = "nowork"
               THEN IsPrefix(f.trace, NoWorkSteps) /\ Len(f.trace) >= 2
               ELSE IsPrefix(f.trace, RunSteps)
            /\ f.taskRuns <= 1
            /\ f.taskRuns = 1 =>
                  /\ "runQuantum" \in Range(f.trace)
                  /\ f.checked.ret = "False"
                  /\ f.path # "nowork"
                  /\ f.hookCalls <= 1
            /\ (f.taskRuns = 1 /\ f.written.ref # NoRef) =>
                  f.written.payload.quantum = <<"prep", "init", "start", "end">>

\* A call took all seven steps and returned.
C22_Witness ==
    LET f == ex["e1"]
    IN  /\ f.trace = RunSteps
        /\ f.outcome = "returned"
        /\ f.written.payload.task = "full"
        /\ f.hookCalls = 1

-----------------------------------------------------------------------------
(* C23 *)

\* For a quantum without data ID no call has touched the store or the task:
\* no registry refresh, no log capture, no step of _execute, no prune, no put,
\* no task, and every call made ended with the AssertionError.
C23_NothingDone ==
    \A e \in Executors :
        LET f == ex[e]
        IN  quantum.dataId = None =>
                /\ f.pc = "idle"
                /\ f.outcome \in {None, "AssertionError"}
                /\ ~f.refreshed
                /\ ~f.captured
                /\ f.trace = <<>>
                /\ f.checked.ret = None
                /\ f.pruned = {} /\ f.puts = {}
                /\ f.hookCalls = 0 /\ f.taskRuns = 0
                /\ f.result = NoQuantum /\ f.report = NoReport

\* For a quantum without data ID no step changes the store.
C23_StoreKept == quantum.dataId = None => store' = store

\* C23: execute() on a quantum whose dataId is None fails at once with the
\* AssertionError, before any registry refresh, existence query, prune, put,
\* log capture or task construction, and the store stays as it was.
C23_NullDataIdFailsFirst == [](C23_NothingDone) /\ [][C23_StoreKept]_vars

\* An executor with a full butler was called twice on a quantum without data
\* ID, whose outputs are stored in part.
C23_Witness ==
    LET f == ex["e1"]
    IN  /\ quantum.dataId = None
        /\ cfg["e1"].butler = "full"
        /\ cfg["e1"].clobberOutputs
        /\ PartialOutputsStored(quantum, store)
        /\ f.prev.outcome = "AssertionError"
        /\ f.outcome = "AssertionError"

-----------------------------------------------------------------------------
(* C24 *)

\* The call entered the log capture region and has left it: it returned,
\* raised, or ended the process.
LeftCapture(f) ==
    /\ f.captured
    /\ f.outcome # None
    /\ f.pc \in {"idle", "exited"}

\* C24: when a call leaves the log capture region, captureLog.store is False
\* if checkExistingOutputs returned True or raised, and True on every other
\* way out: normal completion, no-work in reconciliation, an exception of
\* a later step or of the task, and sys.exit.
C24_StoreFlag ==
    \A e \in Executors :
        LET f == ex[e]
        IN  LeftCapture(f) =>
                /\ f.captureLog = (f.checked.ret \notin {"True", "raise"})
                /\ f.checked.ret \in {"True", "False", "raise"}
                /\ (f.path \in {"run", "nowork"} \/ f.taskRuns > 0
                        \/ f.pc = "exited") => f.captureLog
                /\ (f.path = "skip" \/ f.outcome \in {"RuntimeError", "KeyError"})
                        => ~f.captureLog

\* The process ended by sys.exit with the flag set, after a call of the same
\* executor that ended with the task's RepeatableQuantumError.
C24_Witness ==
    LET f == ex["e1"]
    IN  /\ LeftCapture(f)
        /\ f.pc = "exited"
        /\ f.captureLog
        /\ f.prev.outcome = "RepeatableQuantumError"

-----------------------------------------------------------------------------
(* C25 *)

\* The instruments the references of q name.
InstrumentsOf(q) ==
    {r[3] : r \in AllRefs(q.inputs) \cup AllRefs(q.outputs)} \ {None}

\* The call went through initGlobals.
Initialised(f) == "initGlobals" \in Range(f.trace)

\* What initGlobals did in a call: at most one instrument registered, and
\* only with a full butler; with a full butler and references of the
\* reconciled quantum that name different instruments the call ended with
\* AssertionError and no task was made or run, and otherwise the one
\* instrument named was registered; without a full butler nothing was
\* registered or compared and the call went on.
C25_InitGlobals ==
    \A e \in Executors :
        LET f == ex[e]
        IN  /\ Len(f.registered) <= 1
            /\ f.registered # <<>> => (cfg[e].butler # None /\ Initialised(f))
            /\ (Initialised(f) /\ cfg[e].butler # None) =>
                  IF Cardinality(InstrumentsOf(f.q)) > 1
                  THEN /\ f.pc = "idle"
                       /\ f.outcome = "AssertionError"
                       /\ "makeTask" \notin Range(f.trace)
                       /\ f.taskRuns = 0
                  ELSE /\ Range(f.registered) = InstrumentsOf(f.q)
                       /\ "freeze" \in Range(f.trace)
            /\ (Initialised(f) /\ cfg[e].butler = None) =>
                  /\ f.registered = <<>>
                  /\ "freeze" \in Range(f.trace)

\* A step that registers an instrument is taken before the task is made.
C25_BeforeTask ==
    \A e \in Executors :
        (ex'[e].registered # ex[e].registered /\ ex'[e].registered # <<>>) =>
            /\ "makeTask" \notin Range(ex'[e].trace)
            /\ ex'[e].taskRuns = 0

\* C25: initGlobals registers an instrument at most once in a call of
\* execute(), only with a full butler and only before the task is made; with
\* a full butler, when two references of the reconciled quantum name
\* different instruments the call ends with AssertionError and the task is
\* neither made nor run; without a full butler nothing is registered and
\* nothing compared.
C25_GlobalInit == [](C25_InitGlobals) /\ [][C25_BeforeTask]_vars

\* With a full butler the references named two instruments: the first was
\* registered and the call ended with AssertionError.
C25_Witness ==
    LET f == ex["e1"]
    IN  /\ cfg["e1"].butler = "full"
        /\ Cardinality(InstrumentsOf(f.q)) = 2
        /\ Len(f.registered) = 1
        /\ f.outcome = "AssertionError"

-----------------------------------------------------------------------------
(* C26 *)

\* C26: with one executor on the store, when checkExistingOutputs has
\* returned False none of the quantum's output references is stored, and none
\* is until the task body starts.
C26_EmptyOutputsAfterCheck ==
    \A e \in Executors :
        LET f == ex[e]
        IN  (f.checked.ret = "False"
                /\ f.pc \in {"reconcile", "initGlobals", "makeTask", "runQuantum"}) =>
                /\ StoredOutputs(quantum, store) = {}
                /\ StoredOutputs(f.q, store) = {}
                /\ store = f.store0 \ f.checked.prune

\* The check removed the partial outputs of an earlier call and the task
\* body is about to start.
C26_Witness ==
    LET f == ex["e1"]
    IN  /\ f.checked.ret = "False"
        /\ f.pc = "runQuantum"
        /\ PartialOutputsStored(quantum, f.store0)
        /\ f.prev.outcome = "Exception"

-----------------------------------------------------------------------------
(* C27 *)

\* The failures of the task body that are no early exit.
TaskFailures == {"RepeatableQuantumError", "InvalidQuantumError", "Exception"}

\* C27: in a call of execute() the metadata is put only after the task body
\* returned or raised NoWorkFound, or after the reconciliation raised
\* NoWorkFound; when the task body raised RepeatableQuantumError,
\* InvalidQuantumError or another exception the call went through no
\* writeMetadata and handed no metadata reference to put, whether it raised or
\* ended the process.
C27_MetadataMarksCompletion ==
    \A e \in Executors :
        LET f == ex[e]
        IN  /\ (WroteMetadata(f) \/ f.written.ref # NoRef
                    \/ f.puts \cap MetadataRefs(quantum) # {}) =>
                  \/ f.taskOutcome \in {"ok", "NoWorkFound"}
                  \/ f.path = "nowork" /\ f.taskRuns = 0 /\ f.hookCalls = 1
            /\ f.taskOutcome \in TaskFailures =>
                  /\ ~WroteMetadata(f)
                  /\ f.written.ref = NoRef
                  /\ f.puts \cap MetadataRefs(quantum) = {}
                  /\ MetadataRefs(quantum) \cap store \subseteq f.store0
                  /\ f.pc \in {"idle", "exited"}
                  /\ f.outcome \in {f.taskOutcome, "exit"}

\* The task body put its output and the process ended on its error: the
\* output is stored and the metadata is not.
C27_Witness ==
    LET f == ex["e1"]
    IN  /\ f.taskOutcome = "RepeatableQuantumError"
        /\ f.pc = "exited"
        /\ f.puts # {}
        /\ HasMetadataRef(quantum)
        /\ ~MetadataStored(quantum, store)

-----------------------------------------------------------------------------
(* C28 *)

\* The call is a retry after a call that failed having left outputs but no
\* metadata in the store.
RetryOnLeftovers(f) ==
    /\ f.captured
    /\ f.prev.outcome \notin {None, "returned"}
    /\ StoredOutputs(quantum, f.store0) # {}
    /\ ~MetadataStored(quantum, f.store0)

\* With clobberOutputs the retry removes the leftover outputs and does not
\* end before it ran the task body; without it the retry ends with the
\* RuntimeError of checkExistingOutputs and runs no task.
C28_RetryOnLeftovers ==
    \A e \in Executors :
        LET f == ex[e]
        IN  (RetryOnLeftovers(f) /\ Checked(f)) =>
                IF cfg[e].clobberOutputs
                THEN /\ f.checked.ret = "False"
                     /\ f.checked.prune = StoredOutputs(quantum, f.store0)
                     /\ f.pruned = StoredOutputs(quantum, f.store0)
                     /\ f.pc \in {"idle", "exited", "writeMetadata", "return"}
                            => f.taskRuns = 1
                ELSE /\ FailsWith(f, "RuntimeError")
                     /\ f.taskRuns = 0
                     /\ "makeTask" \notin Range(f.trace)
                     /\ store = f.store0

\* C28: with clobberOutputs, a call of execute() that follows a call which
\* failed after the task put outputs and before the metadata was stored
\* removes the leftover outputs and runs the task body again, and when
\* execute() is retried after every failure and the task body succeeds in the
\* end, the quantum's metadata is stored in the end; without clobberOutputs
\* such a retry ends with the RuntimeError of checkExistingOutputs and never
\* runs the task body.
C28_PartialFailureRecovery ==
    /\ [](C28_RetryOnLeftovers)
    /\ cfg["e1"].clobberOutputs => <>(MetadataStored(quantum, store))

\* Under clobberOutputs the task failed leaving an output, the retry removed
\* it, ran the task again, and the metadata is stored.
C28_Witness ==
    LET f == ex["e1"]
    IN  /\ cfg["e1"].clobberOutputs
        /\ RetryOnLeftovers(f)
        /\ f.pruned # {}
        /\ f.taskRuns = 1
        /\ f.outcome = "returned"
        /\ MetadataStored(quantum, store)

====
